---- MODULE Spec2Model ----
(***************************************************************************)
(* Appointment booking of the hospital application: the Appointment and    *)
(* Schedule tables (main/models.py), the booking view                      *)
(* create_appointment_htmx (main/views.py) and the bulk status actions of  *)
(* AppointmentAdmin (main/admin.py).                                       *)
(*                                                                         *)
(* Dates are day ordinals, times are minutes since midnight.               *)
(***************************************************************************)
EXTENDS Integers, Sequences, FiniteSets, TLC

\* ---------------------------------------------------------------- bounds
MaxAppts == 2
MaxToday == 1
MaxSlots == 6
\* the largest number of Hospital and Patient rows stored, taken together
MaxRecords == 2

\* ------------------------------------------------------ program constants
DefaultDuration == 30
MinDuration == 10
MaxDuration == 120

\* ------------------------------------------------------------ input sets
Doctors == {1}
Dates == {0, 1}
Times == {570, 600}
Requests == {1, 2}

ActiveStatuses == {"pending", "confirmed"}
STATUS_CHOICES == {"pending", "confirmed", "cancelled"}

\* date.weekday()
Weekday(d) == d % 7

\* The stored Schedule tables the bookings are checked against.  Each row is
\* unique per (doctor, day_of_week) and satisfies start_time < end_time.
ScheduleRow(d, w, s, e, working, dur) ==
    [doctor |-> d, day_of_week |-> w, start_time |-> s, end_time |-> e,
     is_working |-> working, appointment_duration |-> dur]

ScheduleTables ==
    { { ScheduleRow(1, 0, 570, 600, TRUE, DefaultDuration),
        ScheduleRow(1, 1, 600, 660, TRUE, DefaultDuration) },
      { ScheduleRow(1, 0, 510, 570, TRUE, DefaultDuration),
        ScheduleRow(1, 1, 570, 630, FALSE, DefaultDuration) },
      { ScheduleRow(1, 1, 570, 630, TRUE, 2 * DefaultDuration) } }

VARIABLES
    appointments,   \* the Appointment table: row pk is the index
    schedules,      \* the Schedule table
    today,          \* timezone.now().date()
    inflight,       \* per request: the appointment validated, not yet saved
    last,           \* the latest handler run and what it reported
    reminder_sent,  \* the pks of the rows whose reminder_sent is True
    call,           \* the call that is running: available_slots, or a save's slug search
    hospitals,      \* the Hospital table: row pk is the index
    patients        \* the Patient table: row pk is the index

vars == <<appointments, schedules, today, inflight, last, reminder_sent, call,
         hospitals, patients>>

\* the shape of the state: the fields of Appointment the handlers read and
\* write. A stored status is whatever a handler wrote, which the bulk admin
\* actions do not restrict to STATUS_CHOICES.
TypeOK ==
    /\ appointments \in Seq([doctor : Doctors, appointment_date : Dates,
                             appointment_time : Times,
                             status : STATUS_CHOICES \cup {"completed"}])
    /\ Len(appointments) <= MaxAppts
    /\ schedules \in ScheduleTables
    /\ today \in 0..MaxToday
    /\ DOMAIN inflight = Requests
    /\ reminder_sent \subseteq DOMAIN appointments
    /\ Len(hospitals) + Len(patients) <= MaxRecords

NoRequest == [doctor |-> 0, appointment_date |-> -1, appointment_time |-> -1]

Response(op, d, dt, t, res) ==
    [op |-> op, doctor |-> d, appointment_date |-> dt, appointment_time |-> t,
     result |-> res]

AdminResponse(op, res) == Response(op, 0, -1, -1, res)

\* no available_slots call is running
NoCall == [pc |-> "idle"]

\* ---------------------------------------------------------- Schedule

\* Schedule.available_slots
RECURSIVE SlotsFrom(_, _, _)
SlotsFrom(current, end, duration) ==
    IF current + duration <= end
    THEN <<current>> \o SlotsFrom(current + duration, end, duration)
    ELSE <<>>

available_slots(s) == SlotsFrom(s.start_time, s.end_time, s.appointment_duration)

\* self.doctor.schedules.filter(day_of_week=day_of_week, is_working=True)
WorkingSchedules(d, w, scheds) ==
    {s \in scheds : s.doctor = d /\ s.day_of_week = w /\ s.is_working}

\* ---------------------------------------------------------- Appointment

SameSlot(a, b) ==
    /\ a.doctor = b.doctor
    /\ a.appointment_date = b.appointment_date
    /\ a.appointment_time = b.appointment_time

\* variant: the constraint's condition names only status = 'pending'
unique_pending_only(table) ==
    \A i, j \in DOMAIN table :
        (/\ i # j
         /\ table[i].status = "pending"
         /\ table[j].status = "pending") => ~SameSlot(table[i], table[j])

\* Appointment.Meta.constraints: unique_appointment_time
unique_appointment_time(table) ==
    \A i, j \in DOMAIN table :
        (/\ i # j
         /\ table[i].status \in ActiveStatuses
         /\ table[j].status \in ActiveStatuses) => ~SameSlot(table[i], table[j])

\* variant: the conflict query filters on status = 'pending' alone
conflicting_pending_only(a, pk, table) ==
    {i \in DOMAIN table :
        SameSlot(table[i], a) /\ table[i].status = "pending"} \ {pk}

\* variant: the conflict query has no status filter
conflicting_any_status(a, pk, table) ==
    {i \in DOMAIN table : SameSlot(table[i], a)} \ {pk}

\* variant: the conflict query does not exclude the row's own pk
conflicting_with_self(a, pk, table) ==
    {i \in DOMAIN table :
        SameSlot(table[i], a) /\ table[i].status \in ActiveStatuses}

\* Appointment.clean: conflicting_appointments (pk = 0 for an unsaved row)
conflicting_appointments(a, pk, table) ==
    {i \in DOMAIN table :
        SameSlot(table[i], a) /\ table[i].status \in ActiveStatuses} \ {pk}

\* variant: the schedule check compares with start_time alone
OutsideStartOnly(a, scheds) ==
    \E s \in WorkingSchedules(a.doctor, Weekday(a.appointment_date), scheds) :
        ~(s.start_time <= a.appointment_time)

\* Appointment.clean: the schedule check
OutsideWorkingHours(a, scheds) ==
    \E s \in WorkingSchedules(a.doctor, Weekday(a.appointment_date), scheds) :
        ~(s.start_time <= a.appointment_time /\ a.appointment_time <= s.end_time)

\* variant: the date check is appointment_date <= today
clean_past_inclusive(a, pk, table, now, scheds) ==
    IF a.status \in ActiveStatuses /\ conflicting_appointments(a, pk, table) # {}
    THEN "SlotTaken"
    ELSE IF a.appointment_date <= now
    THEN "PastDate"
    ELSE IF OutsideWorkingHours(a, scheds)
    THEN "OutOfHours"
    ELSE "Ok"

\* variant: the checks run as schedule, date, conflict
clean_hours_first(a, pk, table, now, scheds) ==
    IF OutsideWorkingHours(a, scheds)
    THEN "OutOfHours"
    ELSE IF a.appointment_date < now
    THEN "PastDate"
    ELSE IF a.status \in ActiveStatuses /\ conflicting_appointments(a, pk, table) # {}
    THEN "SlotTaken"
    ELSE "Ok"

\* Appointment.clean: the first ValidationError raised, or "Ok"
clean(a, pk, table, now, scheds) ==
    IF a.status \in ActiveStatuses /\ conflicting_appointments(a, pk, table) # {}
    THEN "SlotTaken"
    ELSE IF a.appointment_date < now
    THEN "PastDate"
    ELSE IF OutsideWorkingHours(a, scheds)
    THEN "OutOfHours"
    ELSE "Ok"

\* variant: the INSERT goes through without the unique constraint
InsertUnchecked(a, table) ==
    [result |-> "Ok", table |-> Append(table, a)]

\* super().save() of a new row: the INSERT, refused by the unique constraint
Insert(a, table) ==
    IF unique_appointment_time(Append(table, a))
    THEN [result |-> "Ok", table |-> Append(table, a)]
    ELSE [result |-> "IntegrityError", table |-> table]

\* variant: the row is written although full_clean raised
save_unvalidated(a, table, now, scheds) ==
    LET reason == clean(a, 0, table, now, scheds) IN
    IF reason # "Ok"
    THEN [result |-> reason, table |-> Append(table, a)]
    ELSE Insert(a, table)

\* Appointment.save of a new row: full_clean, then super().save()
save(a, table, now, scheds) ==
    LET reason == clean(a, 0, table, now, scheds) IN
    IF reason # "Ok"
    THEN [result |-> reason, table |-> table]
    ELSE Insert(a, table)

\* variant: the view creates the row as confirmed
NewAppointmentConfirmed(d, dt, t) ==
    [doctor |-> d, appointment_date |-> dt, appointment_time |-> t,
     status |-> "confirmed"]

\* create_appointment_htmx: the row handed to Appointment.objects.create
NewAppointment(d, dt, t) ==
    [doctor |-> d, appointment_date |-> dt, appointment_time |-> t,
     status |-> "pending"]

\* queryset.update(status=...): one UPDATE statement over the rows in q,
\* refused as a whole by the unique constraint
QuerysetUpdate(q, status, table) ==
    LET new == [i \in DOMAIN table |->
                  IF i \in q THEN [table[i] EXCEPT !.status = status]
                  ELSE table[i]]
    IN IF unique_appointment_time(new)
       THEN [result |-> "Ok", table |-> new]
       ELSE [result |-> "IntegrityError", table |-> table]

\* ---------------------------------------------------------- state machine

Init ==
    /\ appointments = <<>>
    /\ schedules \in ScheduleTables
    /\ today = 0
    /\ inflight = [r \in Requests |-> NoRequest]
    /\ last = AdminResponse("none", "Ok")
    /\ reminder_sent = {}
    /\ call = NoCall
    /\ hospitals = <<>>
    /\ patients = <<>>

\* create_appointment_htmx, POST, run without interleaving
CreateAppointmentHtmx(d, dt, t) ==
    LET s == save(NewAppointment(d, dt, t), appointments, today, schedules) IN
    /\ s.result # "Ok" \/ Len(appointments) < MaxAppts
    /\ appointments' = s.table
    /\ last' = Response("create_appointment_htmx", d, dt, t, s.result)
    /\ UNCHANGED <<schedules, today, inflight, reminder_sent, call,
                   hospitals, patients>>

AdminAction(op, q, status) ==
    LET u == QuerysetUpdate(q, status, appointments) IN
    /\ q # {}
    /\ appointments' = u.table
    /\ last' = AdminResponse(op, u.result)
    /\ UNCHANGED <<schedules, today, inflight, reminder_sent, call,
                   hospitals, patients>>

\* AppointmentAdmin.confirm_appointments
ConfirmAppointments(q) == AdminAction("confirm_appointments", q, "confirmed")

\* AppointmentAdmin.cancel_appointments
CancelAppointments(q) == AdminAction("cancel_appointments", q, "cancelled")

\* AppointmentAdmin.mark_as_completed
MarkAsCompleted(q) == AdminAction("mark_as_completed", q, "completed")

\* the calendar day changes
Tick ==
    /\ today < MaxToday
    /\ today' = today + 1
    /\ last' = AdminResponse("tick", "Ok")
    /\ UNCHANGED <<appointments, schedules, inflight, reminder_sent, call,
                   hospitals, patients>>

Next ==
    \/ \E d \in Doctors, dt \in Dates, t \in Times : CreateAppointmentHtmx(d, dt, t)
    \/ \E q \in SUBSET (DOMAIN appointments) : ConfirmAppointments(q)
    \/ \E q \in SUBSET (DOMAIN appointments) : CancelAppointments(q)
    \/ \E q \in SUBSET (DOMAIN appointments) : MarkAsCompleted(q)
    \/ Tick

Spec == Init /\ [][Next]_vars

\* ------------------------------------------- interleaved booking requests

\* Appointment.save, first half: self.full_clean()
FullClean(r, d, dt, t) ==
    LET reason == clean(NewAppointment(d, dt, t), 0, appointments, today, schedules) IN
    /\ inflight[r] = NoRequest
    /\ IF reason = "Ok"
       THEN /\ inflight' = [inflight EXCEPT ![r] = [doctor |-> d,
                               appointment_date |-> dt, appointment_time |-> t]]
            /\ last' = Response("full_clean", d, dt, t, "Ok")
       ELSE /\ inflight' = inflight
            /\ last' = Response("create_appointment_htmx", d, dt, t, reason)
    /\ UNCHANGED <<appointments, schedules, today, reminder_sent, call,
                   hospitals, patients>>

\* Appointment.save, second half: super().save(), and the view's response
SuperSave(r) ==
    LET a == inflight[r]
        s == Insert(NewAppointment(a.doctor, a.appointment_date, a.appointment_time),
                    appointments)
    IN
    /\ a # NoRequest
    /\ s.result # "Ok" \/ Len(appointments) < MaxAppts
    /\ appointments' = s.table
    /\ inflight' = [inflight EXCEPT ![r] = NoRequest]
    /\ last' = Response("create_appointment_htmx", a.doctor, a.appointment_date,
                        a.appointment_time, s.result)
    /\ UNCHANGED <<schedules, today, reminder_sent, call, hospitals, patients>>

NextConc ==
    \/ \E r \in Requests, d \in Doctors, dt \in Dates, t \in Times : FullClean(r, d, dt, t)
    \/ \E r \in Requests : SuperSave(r)

SpecConc == Init /\ [][NextConc]_vars

\* ---- saving a stored appointment ----

\* variant: an update skips full_clean
save_existing_unvalidated(a, pk, table, now, scheds) ==
    [result |-> "Ok", table |-> [table EXCEPT ![pk] = a]]

\* Appointment.save of the stored row pk with the values a: full_clean (the
\* field validators, then clean with the row's own pk), then the UPDATE
save_existing(a, pk, table, now, scheds) ==
    LET reason == IF a.status \notin STATUS_CHOICES THEN "InvalidChoice"
                  ELSE clean(a, pk, table, now, scheds)
        new == [table EXCEPT ![pk] = a]
    IN IF reason # "Ok" THEN [result |-> reason, table |-> table]
       ELSE IF unique_appointment_time(new)
            THEN [result |-> "Ok", table |-> new]
            ELSE [result |-> "IntegrityError", table |-> table]

\* Appointment.is_upcoming: the appointment's date and time are after now;
\* later says whether its time of day is still ahead when the date is today
is_upcoming(a, now, later) ==
    \/ a.appointment_date > now
    \/ a.appointment_date = now /\ later

SaveResponse(op, pk, was, status, res) ==
    [op |-> op, pk |-> pk, was |-> was, status |-> status, result |-> res]

\* AppointmentInline: the status of the stored row pk is edited and the row
\* is saved through Appointment.save
AppointmentSave(pk, status) ==
    LET a == [appointments[pk] EXCEPT !.status = status]
        s == save_existing(a, pk, appointments, today, schedules)
    IN /\ appointments' = s.table
       /\ last' = SaveResponse("appointment_save", pk, appointments[pk].status,
                               status, s.result)
       /\ UNCHANGED <<schedules, today, inflight, reminder_sent, call,
                      hospitals, patients>>

\* Appointment.send_reminder on the stored row pk; a failed save is logged
SendReminder(pk, later) ==
    LET a == appointments[pk]
        s == save_existing(a, pk, appointments, today, schedules)
        res == IF pk \notin reminder_sent /\ is_upcoming(a, today, later)
               THEN s.result ELSE "Skipped"
    IN /\ reminder_sent' = IF res = "Ok" THEN reminder_sent \cup {pk}
                           ELSE reminder_sent
       /\ last' = SaveResponse("send_reminder", pk, a.status, a.status, res)
       /\ UNCHANGED <<appointments, schedules, today, inflight, call,
                      hospitals, patients>>

\* AppointmentAdmin.mark_reminder_sent: queryset.update(reminder_sent=True)
MarkReminderSent(q) ==
    /\ q # {}
    /\ reminder_sent' = reminder_sent \cup q
    /\ last' = AdminResponse("mark_reminder_sent", "Ok")
    /\ UNCHANGED <<appointments, schedules, today, inflight, call,
                   hospitals, patients>>

NextSave ==
    \/ \E d \in Doctors, dt \in Dates, t \in Times : CreateAppointmentHtmx(d, dt, t)
    \/ \E pk \in DOMAIN appointments, status \in STATUS_CHOICES :
          AppointmentSave(pk, status)
    \/ \E pk \in DOMAIN appointments, later \in BOOLEAN : SendReminder(pk, later)
    \/ \E q \in SUBSET (DOMAIN appointments) : MarkReminderSent(q)
    \/ Tick

\* one doctor working 09:30-10:00 on weekday 0 and 10:00-11:00 on weekday 1
InitSave ==
    /\ Init
    /\ schedules = { ScheduleRow(1, 0, 570, 600, TRUE, DefaultDuration),
                      ScheduleRow(1, 1, 600, 660, TRUE, DefaultDuration) }

SpecSave == InitSave /\ [][NextSave]_vars

\* ------------------------------------------------ the bookable times

\* load_available_times: the list of times it renders
ExampleTimes == <<540, 600, 660, 840, 900>>

\* load_available_times(request, doctor_id) with ?date=dt
LoadAvailableTimes(d, dt) ==
    /\ last' = [op |-> "load_available_times", doctor |-> d,
                appointment_date |-> dt, times |-> ExampleTimes]
    /\ UNCHANGED <<appointments, schedules, today, inflight, reminder_sent, call,
                   hospitals, patients>>

NextViews ==
    \/ Next
    \/ \E d \in Doctors, dt \in Dates : LoadAvailableTimes(d, dt)

SpecViews == Init /\ [][NextViews]_vars

\* ------------------------------------------- schedules and their slots

\* the Schedule rows offered for saving: valid and invalid windows and
\* durations, for one doctor and weekday
StartTimes == {540, 600}
EndTimes == {540, 570, 600, 720}
Durations == {-30, 0, 5, MinDuration, DefaultDuration, 45, MaxDuration, 130}

ScheduleInputs ==
    {ScheduleRow(1, 0, s, e, TRUE, dur) :
        s \in StartTimes, e \in EndTimes, dur \in Durations}

\* Schedule.appointment_duration: MinValueValidator(10), MaxValueValidator(120)
DurationValid(row) ==
    MinDuration <= row.appointment_duration /\ row.appointment_duration <= MaxDuration

\* Schedule.clean
ScheduleClean(row) ==
    IF row.start_time >= row.end_time THEN "InvalidSchedule" ELSE "Ok"

\* Schedule.Meta.constraints: unique_schedule_per_day
unique_schedule_per_day(row, scheds) ==
    \A s \in scheds : ~(s.doctor = row.doctor /\ s.day_of_week = row.day_of_week)

\* the admin's add form: the form runs full_clean (field validators, clean,
\* unique checks) and saves only a valid row
ScheduleFormSave(row, scheds) ==
    IF ~DurationValid(row) THEN [result |-> "InvalidDuration", table |-> scheds]
    ELSE IF ScheduleClean(row) # "Ok"
    THEN [result |-> ScheduleClean(row), table |-> scheds]
    ELSE IF ~unique_schedule_per_day(row, scheds)
    THEN [result |-> "NotUnique", table |-> scheds]
    ELSE [result |-> "Ok", table |-> scheds \cup {row}]

\* Schedule.save: the model defines no save of its own, so Model.save writes
\* the row without clean or the validators; only the database constraint acts
ScheduleModelSave(row, scheds) ==
    IF ~unique_schedule_per_day(row, scheds)
    THEN [result |-> "IntegrityError", table |-> scheds]
    ELSE [result |-> "Ok", table |-> scheds \cup {row}]

ScheduleResponse(op, row, res) == [op |-> op, row |-> row, result |-> res]

\* current.time(): the time of day of a datetime
TimeOfDay(minutes) == minutes % 1440

\* variant: the loop test is current + duration < end
WhileCondStrict(current, end, duration) == current + duration < end

\* variant: the loop test is current <= end
WhileCondStart(current, end, duration) == current <= end

\* Schedule.available_slots: the loop test
WhileCond(current, end, duration) == current + duration <= end

\* variant: the loop advances by one minute more than the duration
AdvancePlusOne(current, duration) == current + duration + 1

\* Schedule.available_slots: current += timedelta(minutes=duration)
Advance(current, duration) == current + duration

InitSched ==
    /\ appointments = <<>>
    /\ schedules = {}
    /\ today = 0
    /\ inflight = [r \in Requests |-> NoRequest]
    /\ last = AdminResponse("none", "Ok")
    /\ reminder_sent = {}
    /\ call = NoCall
    /\ hospitals = <<>>
    /\ patients = <<>>

\* ScheduleAdmin / ScheduleInline: a Schedule added through the admin form
ScheduleAdminAdd(row) ==
    LET r == ScheduleFormSave(row, schedules) IN
    /\ call.pc # "loop"
    /\ schedules' = r.table
    /\ last' = ScheduleResponse("schedule_admin_add", row, r.result)
    /\ call' = NoCall
    /\ UNCHANGED <<appointments, today, inflight, reminder_sent,
                   hospitals, patients>>

\* Schedule(...).save()
ScheduleSave(row) ==
    LET r == ScheduleModelSave(row, schedules) IN
    /\ call.pc # "loop"
    /\ schedules' = r.table
    /\ last' = ScheduleResponse("schedule_save", row, r.result)
    /\ call' = NoCall
    /\ UNCHANGED <<appointments, today, inflight, reminder_sent,
                   hospitals, patients>>

\* a Schedule row is deleted (admin delete view)
ScheduleDelete(row) ==
    /\ call.pc # "loop"
    /\ row \in schedules
    /\ schedules' = schedules \ {row}
    /\ last' = ScheduleResponse("schedule_delete", row, "Ok")
    /\ call' = NoCall
    /\ UNCHANGED <<appointments, today, inflight, reminder_sent,
                   hospitals, patients>>

\* Schedule.available_slots is read on a stored row: slots = [], current = start
AvailableSlotsCall(row) ==
    /\ call.pc # "loop"
    /\ row \in schedules
    /\ call' = [pc |-> "loop", schedule |-> row, current |-> row.start_time,
                slots |-> <<>>]
    /\ UNCHANGED <<appointments, schedules, today, inflight, last, reminder_sent,
                   hospitals, patients>>

\* one pass of the while loop
AvailableSlotsLoop ==
    /\ call.pc = "loop"
    /\ WhileCond(call.current, call.schedule.end_time,
                 call.schedule.appointment_duration)
    /\ Len(call.slots) < MaxSlots
    /\ call' = [call EXCEPT
                  !.slots = Append(@, TimeOfDay(call.current)),
                  !.current = Advance(@, call.schedule.appointment_duration)]
    /\ UNCHANGED <<appointments, schedules, today, inflight, last, reminder_sent,
                   hospitals, patients>>

\* the loop test fails: return slots
AvailableSlotsReturn ==
    /\ call.pc = "loop"
    /\ ~WhileCond(call.current, call.schedule.end_time,
                  call.schedule.appointment_duration)
    /\ call' = [call EXCEPT !.pc = "done"]
    /\ UNCHANGED <<appointments, schedules, today, inflight, last, reminder_sent,
                   hospitals, patients>>

NextSched ==
    \/ \E row \in ScheduleInputs : ScheduleAdminAdd(row)
    \/ \E row \in ScheduleInputs : ScheduleSave(row)
    \/ \E row \in ScheduleInputs : ScheduleDelete(row)
    \/ \E row \in ScheduleInputs : AvailableSlotsCall(row)
    \/ AvailableSlotsLoop
    \/ AvailableSlotsReturn

SpecSched == InitSched /\ [][NextSched]_vars

\* ------------------------------------------------- slugs of saved records

\* Text is a sequence of characters; a character outside ASCII is written by
\* its code point (U+044F is a Cyrillic letter).
WordChars == {"a", "b", "1", "_"}
Separators == {" ", "-"}
Blank == <<>>

\* unicodedata.normalize("NFKD", c).encode("ascii", "ignore"): a character
\* outside ASCII that has no ASCII decomposition is dropped
Ascii(c) == IF c = "U+044F" THEN <<>> ELSE <<c>>

RECURSIVE Normalize(_)
Normalize(v) ==
    IF v = <<>> THEN <<>> ELSE Ascii(Head(v)) \o Normalize(Tail(v))

\* str.lower
Lower(c) == IF c = "A" THEN "a" ELSE IF c = "B" THEN "b" ELSE c

\* re.sub(r"[^\w\s-]", "", value.lower())
IsSlugChar(c) == c \in WordChars \cup Separators

Cleaned(v) == SelectSeq([i \in 1..Len(v) |-> Lower(v[i])], IsSlugChar)

RECURSIVE LStrip(_, _)
LStrip(v, chars) ==
    IF v # <<>> /\ Head(v) \in chars THEN LStrip(Tail(v), chars) ELSE v

RECURSIVE RStrip(_, _)
RStrip(v, chars) ==
    IF v # <<>> /\ v[Len(v)] \in chars
    THEN RStrip(SubSeq(v, 1, Len(v) - 1), chars) ELSE v

\* re.sub(r"[-\s]+", "-", value)
RECURSIVE Collapse(_)
Collapse(v) ==
    IF v = <<>> THEN <<>>
    ELSE IF Head(v) \in Separators
         THEN <<"-">> \o Collapse(LStrip(Tail(v), Separators))
         ELSE <<Head(v)>> \o Collapse(Tail(v))

\* django.utils.text.slugify
slugify(value) ==
    RStrip(LStrip(Collapse(Cleaned(Normalize(value))), {"-", "_"}), {"-", "_"})

DigitChars == <<"0", "1", "2", "3", "4", "5", "6", "7", "8", "9">>

\* str(n) for n >= 0
RECURSIVE Digits(_)
Digits(n) ==
    IF n < 10 THEN <<DigitChars[n + 1]>>
    ELSE Digits(n \div 10) \o <<DigitChars[(n % 10) + 1]>>

\* f'{base_slug}-{counter}'
Candidate(base, counter) == base \o <<"-">> \o Digits(counter)

\* the names and slugs the saves are called with
HospitalNames == { <<"A">>, <<"a", " ", ".">>, <<"a", " ", "1">>, <<"U+044F">> }
LastNames == { <<"A">>, <<"U+044F">> }
FirstNames == { <<"B">> }
ExplicitSlugs == { <<"a", "-", "1">> }

HospitalRow(name, slug) == [name |-> name, slug |-> slug]
PatientRow(last_name, first_name, slug) ==
    [last_name |-> last_name, first_name |-> first_name, slug |-> slug]

\* slugify(self.name), slugify(f"{self.last_name}-{self.first_name}")
HospitalBase(row) == slugify(row.name)
PatientBase(row) == slugify(row.last_name \o <<"-">> \o row.first_name)

\* variant: the query does not exclude the record being saved
SlugExistsAny(slug, pk, table) ==
    \E i \in DOMAIN table : table[i].slug = slug

\* objects.filter(slug=slug).exclude(pk=self.pk).exists()
SlugExists(slug, pk, table) ==
    \E i \in DOMAIN table \ {pk} : table[i].slug = slug

Models == {"Hospital", "Patient"}

Table(model) == IF model = "Hospital" THEN hospitals ELSE patients

base_slug(model, row) ==
    IF model = "Hospital" THEN HospitalBase(row) ELSE PatientBase(row)

\* the unique columns of the row are free among the other rows: slug for both
\* models, name for Hospital (the unique email columns are left out)
UniqueColumnsFree(model, pk, row, table) ==
    /\ ~SlugExists(row.slug, pk, table)
    /\ model = "Hospital" =>
          ~\E i \in DOMAIN table \ {pk} : table[i].name = row.name

\* super().save(): INSERT when the instance has no pk, UPDATE otherwise
ModelSave(model, pk, row, table) ==
    IF ~UniqueColumnsFree(model, pk, row, table)
    THEN [result |-> "IntegrityError", table |-> table]
    ELSE [result |-> "Ok",
          table |-> IF pk = 0 THEN Append(table, row)
                    ELSE [table EXCEPT ![pk] = row]]

Running == call.pc \in {"loop", "slug_loop", "super_save"}

\* save() is entered: with a blank slug the search starts at the base slug
\* with counter = 1, otherwise the slug is kept
SaveCall(model, pk, row) ==
    /\ ~Running
    /\ pk = 0 => Len(hospitals) + Len(patients) < MaxRecords
    /\ call' = [pc |-> IF row.slug = Blank THEN "slug_loop" ELSE "super_save",
                model |-> model, pk |-> pk, row |-> row,
                generated |-> (row.slug = Blank),
                slug |-> IF row.slug = Blank THEN base_slug(model, row)
                         ELSE row.slug,
                counter |-> 1]
    /\ UNCHANGED <<appointments, schedules, today, inflight, last,
                   reminder_sent, hospitals, patients>>

\* Hospital.save on a new instance (pk = 0) or on a stored one
HospitalSave(pk, name, slug) ==
    SaveCall("Hospital", pk, HospitalRow(name, slug))

\* Patient.save on a new instance (pk = 0) or on a stored one
PatientSave(pk, last_name, first_name, slug) ==
    SaveCall("Patient", pk, PatientRow(last_name, first_name, slug))

\* one pass of the while loop: the candidate is used by another record
SlugLoop ==
    /\ call.pc = "slug_loop"
    /\ SlugExists(call.slug, call.pk, Table(call.model))
    /\ call.counter <= MaxRecords + 1
    /\ call' = [call EXCEPT
                  !.slug = Candidate(base_slug(call.model, call.row),
                                     call.counter),
                  !.counter = call.counter + 1]
    /\ UNCHANGED <<appointments, schedules, today, inflight, last,
                   reminder_sent, hospitals, patients>>

\* the loop test fails: self.slug = slug
SlugFound ==
    /\ call.pc = "slug_loop"
    /\ ~SlugExists(call.slug, call.pk, Table(call.model))
    /\ call' = [call EXCEPT !.pc = "super_save", !.row.slug = call.slug]
    /\ UNCHANGED <<appointments, schedules, today, inflight, last,
                   reminder_sent, hospitals, patients>>

\* super().save(*args, **kwargs)
RecordSuperSave ==
    LET s == ModelSave(call.model, call.pk, call.row, Table(call.model)) IN
    /\ call.pc = "super_save"
    /\ hospitals' = IF call.model = "Hospital" THEN s.table ELSE hospitals
    /\ patients' = IF call.model = "Patient" THEN s.table ELSE patients
    /\ last' = [op |-> "save", model |-> call.model,
                pk |-> IF call.pk = 0 THEN Len(s.table) ELSE call.pk,
                generated |-> call.generated, result |-> s.result]
    /\ call' = [pc |-> "saved"]
    /\ UNCHANGED <<appointments, schedules, today, inflight, reminder_sent>>

\* a new instance takes any name and slug; a stored one is saved again
\* under its name, with its slug either kept or cleared
NextSlug ==
    \/ \E name \in HospitalNames, slug \in {Blank} \cup ExplicitSlugs :
          HospitalSave(0, name, slug)
    \/ \E pk \in DOMAIN hospitals :
          \E slug \in {Blank, hospitals[pk].slug} :
             HospitalSave(pk, hospitals[pk].name, slug)
    \/ \E last_name \in LastNames, first_name \in FirstNames,
          slug \in {Blank} \cup ExplicitSlugs :
          PatientSave(0, last_name, first_name, slug)
    \/ \E pk \in DOMAIN patients :
          \E slug \in {Blank, patients[pk].slug} :
             PatientSave(pk, patients[pk].last_name, patients[pk].first_name,
                         slug)
    \/ SlugLoop
    \/ SlugFound
    \/ RecordSuperSave

\* a save that has been entered runs to its end
SpecSlug ==
    /\ InitSched
    /\ [][NextSlug]_vars
    /\ WF_vars(SlugLoop \/ SlugFound \/ RecordSuperSave)

\* ------------------------------------------------------------ properties

\* the response of a booking request (create_appointment_htmx)
IsCreate(l) == l.op = "create_appointment_htmx"

\* the (doctor, date, time) a response is about
Slot(l) ==
    [doctor |-> l.doctor, appointment_date |-> l.appointment_date,
     appointment_time |-> l.appointment_time]

\* the rows of a table that hold a slot as pending or confirmed
ActiveAt(a, table) ==
    {i \in DOMAIN table :
        /\ table[i].doctor = a.doctor
        /\ table[i].appointment_date = a.appointment_date
        /\ table[i].appointment_time = a.appointment_time
        /\ table[i].status \in {"pending", "confirmed"}}

Taken(a, table) == ActiveAt(a, table) # {}

AllSlots ==
    {[doctor |-> d, appointment_date |-> dt, appointment_time |-> t] :
        d \in Doctors, dt \in Dates, t \in Times}

AtMostOneActive(table) ==
    \A a \in AllSlots : Cardinality(ActiveAt(a, table)) <= 1

\* the working schedules of the slot's doctor on the slot's weekday
WorkingFor(a) ==
    {s \in schedules :
        /\ s.doctor = a.doctor
        /\ s.day_of_week = Weekday(a.appointment_date)
        /\ s.is_working}

BeyondHours(a) ==
    \E s \in WorkingFor(a) :
        a.appointment_time < s.start_time \/ a.appointment_time > s.end_time

CheckFailures == {"OutOfHours", "PastDate", "SlotTaken"}

\* C1: in every reachable state, whatever bookings and bulk status changes
\* (confirm, cancel, mark as completed) came before, each (doctor, date, time)
\* has at most one stored appointment that is pending or confirmed.
C1_AtMostOneActivePerSlot == AtMostOneActive(appointments)

\* C1 witness: a bulk confirm was refused by the constraint: a cancelled and a
\* pending appointment share a slot.
C1_Witness ==
    /\ last.op = "confirm_appointments"
    /\ last.result = "IntegrityError"
    /\ \E i, j \in DOMAIN appointments :
        /\ SameSlot(appointments[i], appointments[j])
        /\ appointments[i].status = "cancelled"
        /\ appointments[j].status = "pending"

\* C2: when a request that passed the conflict pre-check reaches its INSERT,
\* the unique constraint decides: if the slot is held by then, the request gets
\* an IntegrityError as its response and nothing is stored; otherwise its
\* pending row is stored. Either way at most one active row holds the slot.
C2_ConstraintArbitrates ==
    [][\A r \in Requests :
        (inflight[r] # NoRequest /\ inflight'[r] = NoRequest) =>
            /\ IsCreate(last')
            /\ Slot(last') = inflight[r]
            /\ IF Taken(inflight[r], appointments)
               THEN /\ last'.result = "IntegrityError"
                    /\ appointments' = appointments
               ELSE /\ last'.result = "Ok"
                    /\ Len(appointments') = Len(appointments) + 1
            /\ Cardinality(ActiveAt(inflight[r], appointments')) = 1]_vars

\* C2 witness: of two requests for one slot that both passed the pre-check,
\* one is stored and the other has just been answered with the IntegrityError.
C2_Witness ==
    /\ IsCreate(last)
    /\ last.result = "IntegrityError"
    /\ Cardinality(ActiveAt(Slot(last), appointments)) = 1
    /\ \A r \in Requests : inflight[r] = NoRequest

\* C3: a booking request for a slot that a pending or confirmed appointment
\* holds is answered SlotTaken and stores nothing.
C3_SecondBookingSlotTaken ==
    [][(IsCreate(last') /\ Taken(Slot(last'), appointments)) =>
            /\ last'.result = "SlotTaken"
            /\ appointments' = appointments]_vars

\* C3 witness: a request for a held slot, with a valid date and inside the
\* working hours, was answered SlotTaken.
C3_Witness ==
    /\ IsCreate(last)
    /\ last.result = "SlotTaken"
    /\ last.appointment_date >= today
    /\ ~BeyondHours(Slot(last))
    /\ Taken(Slot(last), appointments)

\* C4 (as claimed): a booking request that no other check rejects is answered
\* OutOfHours when the doctor has no working schedule for the date's weekday,
\* and when the time is before the schedule's start or after its end.
C4_OutOfHoursAsClaimed ==
    [][(/\ IsCreate(last')
        /\ ~Taken(Slot(last'), appointments)
        /\ last'.appointment_date >= today
        /\ (WorkingFor(Slot(last')) = {} \/ BeyondHours(Slot(last'))))
            => last'.result = "OutOfHours"]_vars

\* C5 (as claimed): every booking request dated before today is answered
\* PastDate.
C5_PastDateAsClaimed ==
    [][(IsCreate(last') /\ last'.appointment_date < today)
            => last'.result = "PastDate"]_vars

\* C5 (amended): every booking request dated before today is rejected and
\* stores nothing; the answer is SlotTaken when the slot is held by a pending
\* or confirmed appointment and PastDate otherwise. A request dated today is
\* never answered PastDate.
C5_PastDateRejected ==
    [][IsCreate(last') =>
        /\ last'.appointment_date < today =>
            /\ appointments' = appointments
            /\ last'.result =
                 IF Taken(Slot(last'), appointments) THEN "SlotTaken" ELSE "PastDate"
        /\ last'.appointment_date = today => last'.result # "PastDate"]_vars

\* C5 witness: a request dated before today was answered PastDate.
C5_Witness ==
    /\ IsCreate(last)
    /\ last.appointment_date < today
    /\ last.result = "PastDate"

\* the time lies outside the range of the slot starts computed from the
\* working schedule of the slot's doctor and weekday
OutsideSlotRange(a) ==
    \E s \in WorkingFor(a) :
        LET slots == available_slots(s) IN
        \/ slots = <<>>
        \/ a.appointment_time < slots[1]
        \/ a.appointment_time > slots[Len(slots)]

\* C6 (as claimed): with a working schedule on the weekday, a booking request
\* whose time is before the first or after the last computed slot start is
\* rejected.
C6_SlotRangeAsClaimed ==
    [][(IsCreate(last') /\ OutsideSlotRange(Slot(last')))
            => last'.result # "Ok"]_vars

\* C6 (amended): with a working schedule on the weekday, a booking request
\* whose time is before the schedule's start or after its end is rejected and
\* stores nothing (as OutOfHours when the slot is free and the date is not
\* past); a time within [start, end], the end included, passes the hours
\* check, so the request is accepted when the slot is free and the date is
\* not past.
C6_WorkingHoursRange ==
    [][(IsCreate(last') /\ WorkingFor(Slot(last')) # {}) =>
        LET open == /\ ~Taken(Slot(last'), appointments)
                    /\ last'.appointment_date >= today
        IN
        /\ BeyondHours(Slot(last')) =>
            /\ last'.result # "Ok"
            /\ appointments' = appointments
            /\ open => last'.result = "OutOfHours"
        /\ (~BeyondHours(Slot(last')) /\ open) => last'.result = "Ok"]_vars

\* C6 witness: a request after the end of the working schedule was answered
\* OutOfHours.
C6_Witness ==
    /\ IsCreate(last)
    /\ last.result = "OutOfHours"
    /\ \E s \in WorkingFor(Slot(last)) : last.appointment_time > s.end_time

\* C7 (as claimed): a request that is past-dated and for a held slot is
\* answered PastDate, and one that is out of hours and past-dated is answered
\* OutOfHours.
C7_OrderAsClaimed ==
    [][IsCreate(last') =>
        /\ (last'.appointment_date < today /\ Taken(Slot(last'), appointments))
              => last'.result = "PastDate"
        /\ (BeyondHours(Slot(last')) /\ last'.appointment_date < today)
              => last'.result = "OutOfHours"]_vars

\* C7 (amended): the checks run as SlotTaken, then PastDate, then OutOfHours
\* and the first failing one is the answer: a request for a held slot is
\* answered SlotTaken also when it is past-dated or out of hours, and a
\* past-dated request for a free slot is answered PastDate also when it is out
\* of hours.
C7_CheckOrder ==
    [][IsCreate(last') =>
        /\ (Taken(Slot(last'), appointments) /\ last'.appointment_date < today)
              => last'.result = "SlotTaken"
        /\ (Taken(Slot(last'), appointments) /\ BeyondHours(Slot(last')))
              => last'.result = "SlotTaken"
        /\ (/\ ~Taken(Slot(last'), appointments)
            /\ last'.appointment_date < today
            /\ BeyondHours(Slot(last')))
              => last'.result = "PastDate"]_vars

\* C7 witness: a past-dated, out-of-hours request for a free slot was answered
\* PastDate.
C7_Witness ==
    /\ IsCreate(last)
    /\ last.result = "PastDate"
    /\ BeyondHours(Slot(last))
    /\ ~Taken(Slot(last), appointments)

\* C8: a booking request that passes all checks appends exactly one row, the
\* requested (doctor, date, time) with status pending, and changes no other
\* row.
C8_CreateAddsOnePending ==
    [][(IsCreate(last') /\ last'.result = "Ok") =>
        appointments' = Append(appointments,
            [doctor |-> last'.doctor,
             appointment_date |-> last'.appointment_date,
             appointment_time |-> last'.appointment_time,
             status |-> "pending"])]_vars

\* C8 witness: a request was accepted while another appointment, no longer
\* pending, was stored.
C8_Witness ==
    /\ IsCreate(last)
    /\ last.result = "Ok"
    /\ Len(appointments) = 2
    /\ appointments[1].status # "pending"
    /\ appointments[2].status = "pending"

\* C9 (as claimed): every stored status is pending, confirmed or cancelled; a
\* new row is pending, and a row's status changes only to confirmed or to
\* cancelled.
C9_StatusAsClaimed ==
    [][\A i \in DOMAIN appointments' :
        /\ appointments'[i].status \in STATUS_CHOICES
        /\ i \notin DOMAIN appointments => appointments'[i].status = "pending"
        /\ (i \in DOMAIN appointments
              /\ appointments'[i].status # appointments[i].status)
              => appointments'[i].status \in {"confirmed", "cancelled"}]_vars

\* C10: a booking request that fails a check (OutOfHours, PastDate, SlotTaken)
\* is answered with that error at once, leaves the stored appointments as they
\* were, and leaves no request behind to be tried again.
C10_FailedBookingNoEffect ==
    [][(IsCreate(last') /\ last'.result \in CheckFailures) =>
        /\ appointments' = appointments
        /\ inflight' = [r \in Requests |-> NoRequest]]_vars

\* C10 witness: a request was rejected for its hours while appointments were
\* stored.
C10_Witness ==
    /\ IsCreate(last)
    /\ last.result = "OutOfHours"
    /\ Len(appointments) > 0

\* the stored rows for a slot, whatever their status
RowsAt(a, table) ==
    {i \in DOMAIN table :
        /\ table[i].doctor = a.doctor
        /\ table[i].appointment_date = a.appointment_date
        /\ table[i].appointment_time = a.appointment_time}

\* C18: a cancelled appointment does not occupy its slot: when the only
\* appointments stored for a (doctor, date, time) are cancelled, a new booking
\* for it that passes the date and hours checks is accepted, and afterwards
\* the cancelled and the new pending appointment are both stored.
C18_CancelledFreesSlot ==
    [][(/\ IsCreate(last')
        /\ RowsAt(Slot(last'), appointments) # {}
        /\ \A i \in RowsAt(Slot(last'), appointments) :
              appointments[i].status = "cancelled"
        /\ last'.appointment_date >= today
        /\ ~BeyondHours(Slot(last')))
        => /\ last'.result = "Ok"
           /\ Len(appointments') = Len(appointments) + 1
           /\ \A i \in DOMAIN appointments : appointments'[i] = appointments[i]
           /\ appointments'[Len(appointments')].status = "pending"
           /\ Len(appointments') \in RowsAt(Slot(last'), appointments')]_vars

\* C18 witness: a cancelled and a newly booked pending appointment are stored
\* for the same slot.
C18_Witness ==
    /\ IsCreate(last)
    /\ last.result = "Ok"
    /\ Len(appointments) = 2
    /\ appointments[1].status = "cancelled"
    /\ appointments[2].status = "pending"
    /\ SameSlot(appointments[1], appointments[2])
    /\ SameSlot(appointments[2], Slot(last))

\* an available_slots call has returned
Returned == call.pc = "done"

\* start + (k+1)*duration <= end
FitsWindow(row, k) ==
    row.start_time + (k + 1) * row.appointment_duration <= row.end_time

\* the indices k = 0, 1, ... taken while start + (k+1)*duration <= end; a
\* returned call made at most MaxSlots passes
SlotIndices(row) ==
    {k \in 0..MaxSlots : \A j \in 0..k : FitsWindow(row, j)}

\* C11: available_slots returns exactly the ascending sequence
\* start + k*duration for k = 0, 1, ... while start + (k+1)*duration <= end
\* (with a duration above zero: for every k with start + (k+1)*duration <= end)
\* and nothing else; for 09:00-12:00 with 30 minutes that is 09:00, 09:30, ...,
\* 11:30.
C11_SlotsAreTheMultiples ==
    Returned =>
        LET row == call.schedule
            K == SlotIndices(row)
        IN
        /\ Len(call.slots) = Cardinality(K)
        /\ \A k \in K :
              call.slots[k + 1] = row.start_time + k * row.appointment_duration
        /\ \A i, j \in DOMAIN call.slots : i < j => call.slots[i] < call.slots[j]
        /\ (/\ row.start_time = 540
            /\ row.end_time = 720
            /\ row.appointment_duration = 30)
              => call.slots = <<540, 570, 600, 630, 660, 690>>

\* C11 witness: the call on 09:00-12:00 with 30 minutes returned its six slots.
C11_Witness ==
    /\ Returned
    /\ call.schedule.start_time = 540
    /\ call.schedule.end_time = 720
    /\ call.schedule.appointment_duration = 30
    /\ Len(call.slots) = 6

C13_SlotsInsideWindow ==
    Returned =>
        \A i \in DOMAIN call.slots :
            /\ call.slots[i] >= call.schedule.start_time
            /\ call.slots[i] + call.schedule.appointment_duration
                  <= call.schedule.end_time

\* C13 witness: a call returned slots the last of which ends before the
\* schedule's end.
C13_Witness ==
    /\ Returned
    /\ Len(call.slots) >= 2
    /\ call.slots[Len(call.slots)] + call.schedule.appointment_duration
          < call.schedule.end_time

\* C14: when end - start is smaller than the duration, end <= start included,
\* available_slots returns the empty sequence.
C14_ShortWindowIsEmpty ==
    (/\ Returned
     /\ call.schedule.end_time - call.schedule.start_time
          < call.schedule.appointment_duration)
        => call.slots = <<>>

\* C14 witness: a call on a window that is open but shorter than the duration
\* returned no slot.
C14_Witness ==
    /\ Returned
    /\ call.schedule.start_time < call.schedule.end_time
    /\ call.schedule.end_time - call.schedule.start_time
          < call.schedule.appointment_duration
    /\ call.slots = <<>>

\* C15 (as claimed): the slot computation terminates on every stored
\* Schedule: each pass of its loop moves current strictly closer to end.
C15_TerminatesAsClaimed ==
    [][(call.pc = "loop" /\ call'.pc = "loop" /\ call' # call) =>
          call.schedule.end_time - call'.current
              < call.schedule.end_time - call.current]_vars

\* C16 (as claimed): every stored Schedule has start < end and a duration in
\* [10, 120], whichever way it was saved.
C16_StoredSchedulesValidAsClaimed ==
    \A row \in schedules :
        /\ row.start_time < row.end_time
        /\ MinDuration <= row.appointment_duration
        /\ row.appointment_duration <= MaxDuration

\* the slots of the doctor's working schedule for the date's weekday that no
\* pending or confirmed appointment of that doctor on that date holds
FreeSlots(d, dt) ==
    LET free(t) == ~Taken([doctor |-> d, appointment_date |-> dt,
                           appointment_time |-> t], appointments)
        of(s) == SelectSeq(available_slots(s), free)
        ws == WorkingSchedules(d, Weekday(dt), schedules)
    IN IF ws = {} THEN <<>> ELSE of(CHOOSE s \in ws : TRUE)

\* C17 (as claimed): the times load_available_times offers for a doctor and a
\* date are the slots of the doctor's schedule for that weekday, minus the
\* slots held by pending or confirmed appointments of that doctor on that date.
C17_OfferedTimesAsClaimed ==
    last.op = "load_available_times" =>
        last.times = FreeSlots(last.doctor, last.appointment_date)

\* the latest response is that of Appointment.save on a stored row
IsSave(l) == l.op = "appointment_save"

\* C19: the conflict check never counts an appointment against itself:
\* re-saving a stored pending or confirmed appointment with its doctor, date
\* and time unchanged (for example pending to confirmed) is not rejected as
\* SlotTaken when no other pending or confirmed appointment holds the slot,
\* and when the date and hours checks pass the new status is stored.
C19_ResaveNotSelfConflict ==
    [][(/\ IsSave(last')
        /\ last'.was \in ActiveStatuses
        /\ last'.status \in ActiveStatuses
        /\ ActiveAt(appointments[last'.pk], appointments) \subseteq {last'.pk})
        => /\ last'.result # "SlotTaken"
           /\ (/\ appointments[last'.pk].appointment_date >= today
               /\ ~BeyondHours(appointments[last'.pk]))
              => /\ last'.result = "Ok"
                 /\ appointments' = [appointments EXCEPT
                                       ![last'.pk].status = last'.status]]_vars

\* C19 witness: a pending appointment has been saved as confirmed.
C19_Witness ==
    /\ IsSave(last)
    /\ last.was = "pending"
    /\ last.status = "confirmed"
    /\ last.result = "Ok"
    /\ appointments[last.pk].status = "confirmed"

\* C20: Appointment.save re-runs the booking checks for updates: saving a
\* change of status to a stored appointment whose date is before today is
\* rejected, send_reminder does not store its flag for such an appointment,
\* and in both cases the stored record keeps its previous values.
C20_PastAppointmentFrozen ==
    [][(/\ last'.op \in {"appointment_save", "send_reminder"}
        /\ appointments[last'.pk].appointment_date < today)
        => /\ last'.result # "Ok"
           /\ IsSave(last') => last'.result \in CheckFailures
           /\ appointments' = appointments
           /\ reminder_sent' = reminder_sent]_vars

\* C20 witness: cancelling a stored pending appointment whose date has passed
\* was rejected with PastDate and the appointment is still pending.
C20_Witness ==
    /\ IsSave(last)
    /\ last.was = "pending"
    /\ last.status = "cancelled"
    /\ last.result = "PastDate"
    /\ appointments[last.pk].appointment_date < today
    /\ appointments[last.pk].status = "pending"

\* the slugs stored in the table by the records other than pk
UsedSlugs(pk, table) == {table[i].slug : i \in DOMAIN table \ {pk}}

\* no two stored records of one model share a slug
SlugsUnique(table) ==
    \A i, j \in DOMAIN table : table[i].slug = table[j].slug => i = j

\* the slug a save with a blank slug is to generate: the base if no other
\* record uses it, otherwise base-N for the smallest N >= 1 no other uses
ExpectedSlug(base, pk, table) ==
    LET used == UsedSlugs(pk, table)
        free(n) == Candidate(base, n) \notin used
    IN IF base \notin used THEN base
       ELSE Candidate(base, CHOOSE n \in 1..(Len(table) + 1) :
                               free(n) /\ \A m \in 1..(n - 1) : ~free(m))

\* a save with a blank slug has finished its search
SearchDone == call.pc = "super_save" /\ call.generated

====
